---- MODULE Spec2Model ----
(***************************************************************************)
(* AMCTools (src/appy16.py): a Streamlit script that extracts a student    *)
(* roster from a spreadsheet, validates an AMC grade export against it and *)
(* merges the grades back under the spreadsheet's preamble rows.           *)
(*                                                                         *)
(* A cell is a record: Str(s) is a text cell, Num(n) a numeric cell, NaN   *)
(* pandas' missing value (an empty spreadsheet cell, an empty CSV field,   *)
(* or the result of a failed numeric coercion).  A raw table is a sequence *)
(* of rows, a row a sequence of cells; a DataFrame with named columns is   *)
(* [columns |-> labels, rows |-> rows].  Row and column positions are      *)
(* 0-based as in the code; TLA+ sequences are 1-based, so position i is    *)
(* element i + 1.                                                          *)
(***************************************************************************)
EXTENDS Integers, Sequences, FiniteSets, TLC

VARIABLES
    uploaded_excel,   \* content of the tab-1 file uploader (None: no file)
    uploaded_csv,     \* content of the tab-2 file uploader (None: no file)
    original_data,    \* st.session_state.original_data
    header_rows,      \* st.session_state.header_rows
    processed_data,   \* tab 1: first value returned by process_excel
    cleaned_csv,      \* tab 2: first value returned by process_csv
    anomalies,        \* tab 2: second value returned by process_csv
    final_df,         \* generate_final_excel: the joined table
    final_excel,      \* tab 2: the sheet returned by generate_final_excel
    ui                \* the st.* calls of the last script run, in order

vars == <<uploaded_excel, uploaded_csv, original_data, header_rows,
          processed_data, cleaned_csv, anomalies, final_df, final_excel, ui>>

(***************************************************************************)
(* Bounds of the model.                                                    *)
(***************************************************************************)
MaxRows == 3        \* rows of an uploaded spreadsheet
MaxGradeRows == 2   \* data lines of an uploaded grade file
MaxNum == 22        \* numbers are drawn from -MaxNum .. MaxNum

(***************************************************************************)
(* Values.                                                                 *)
(***************************************************************************)
None == [k |-> "None"]
Str(s) == [k |-> "str", s |-> s]
Num(n) == [k |-> "num", n |-> n]
NaN == [k |-> "nan"]

NoneIndex == 0 - 1  \* find_header_row's None, kept apart from row 0

isna(c) == c.k = "nan"

Max2(a, b) == IF a >= b THEN a ELSE b

Digit(d) == <<"0", "1", "2", "3", "4", "5", "6", "7", "8", "9">>[d + 1]

RECURSIVE NatStr(_)
NatStr(n) == IF n < 10 THEN Digit(n) ELSE NatStr(n \div 10) \o Digit(n % 10)

\* str() of an integer
IntStr(n) == IF n < 0 THEN "-" \o NatStr(0 - n) ELSE NatStr(n)

NumRange == (0 - MaxNum) .. MaxNum

\* the numerals and the number each one denotes
NumeralValue ==
    [s \in {IntStr(n) : n \in NumRange} |-> CHOOSE n \in NumRange : IntStr(n) = s]

IsNumeral(s) == s \in DOMAIN NumeralValue

\* row.astype(str): the text of a cell
astype_str(c) ==
    CASE c.k = "str" -> c.s
      [] c.k = "num" -> IntStr(c.n)
      [] OTHER       -> "nan"

\* Variant: an unparsable value becomes 0 instead of NaN (C8 tells them apart).
to_numeric_zero(c) ==
    CASE c.k = "num" -> c
      [] c.k = "str" -> IF IsNumeral(c.s) THEN Num(NumeralValue[c.s]) ELSE Num(0)
      [] OTHER       -> Num(0)

\* pd.to_numeric(..., errors='coerce') on one value: a number stays, a text
\* that is a numeral becomes its number, anything else becomes NaN
to_numeric(c) ==
    CASE c.k = "num" -> c
      [] c.k = "str" -> IF IsNumeral(c.s) THEN Num(NumeralValue[c.s]) ELSE NaN
      [] OTHER       -> NaN

\* positions (1-based) of the columns carrying a label, in column order
ColumnsNamed(columns, name) ==
    {j \in 1 .. Len(columns) : columns[j] = Str(name)}

ColIndex(columns, name) == CHOOSE j \in ColumnsNamed(columns, name) : TRUE

\* df[name]: the column as a sequence of cells
Column(df, name) ==
    [i \in 1 .. Len(df.rows) |-> df.rows[i][ColIndex(df.columns, name)]]

\* df[name] = f(df[name])
CoerceColumn(df, name) ==
    [df EXCEPT !.rows =
        [i \in 1 .. Len(df.rows) |->
            [df.rows[i] EXCEPT ![ColIndex(df.columns, name)] = to_numeric(@)]]]

\* series.isna().sum()
CountNa(col) == Cardinality({i \in 1 .. Len(col) : isna(col[i])})

(***************************************************************************)
(* find_header_row                                                         *)
(***************************************************************************)
required_terms == <<"Code", "Nom", "Prénom">>

\* all(term in row.astype(str).values for term in required_terms)
RowHasTerms(row, terms) ==
    \A t \in 1 .. Len(terms) :
        \E j \in 1 .. Len(row) : astype_str(row[j]) = terms[t]

\* the scan of df.iterrows() from position i on
RECURSIVE ScanRows(_, _, _)
ScanRows(df, terms, i) ==
    IF i >= Len(df) THEN NoneIndex
    ELSE IF RowHasTerms(df[i + 1], terms) THEN i
    ELSE ScanRows(df, terms, i + 1)

\* Variant: the last matching row instead of the first (C1 tells them apart).
find_last_header_row(df, terms) ==
    LET hits == {i \in 0 .. Len(df) - 1 : RowHasTerms(df[i + 1], terms)}
    IN IF hits = {} THEN NoneIndex
       ELSE CHOOSE i \in hits : \A j \in hits : j <= i

find_header_row(df, terms) == ScanRows(df, terms, 0)

(***************************************************************************)
(* process_excel                                                           *)
(***************************************************************************)
\* pd.read_excel(file, header=None): raises on bytes that are no workbook
read_excel(file) ==
    IF file.k = "xlsx" THEN [raised |-> FALSE, df |-> file.rows]
    ELSE [raised |-> TRUE]

\* df.iloc[:k]
iloc_before(df, k) == SubSeq(df, 1, k)

\* df.iloc[k:]
iloc_from(df, k) == SubSeq(df, k + 1, Len(df))

\* rename(columns={'Code': 'A:Code'})
rename_code(columns) ==
    [j \in 1 .. Len(columns) |->
        IF columns[j] = Str("Code") THEN Str("A:Code") ELSE columns[j]]

\* Variant: the emptiness test never fires (C9 tells them apart).
NeverEmpty(df) == FALSE

\* df_data.empty: no row (the header row always has cells)
IsEmpty(df) == df.rows = <<>>

\* Variant: a failure also clears Session State (C10 tells them apart).
FailedClearing(ss, text) ==
    [data |-> None, before |-> None,
     ss |-> [original_data |-> None, header_rows |-> None],
     ui |-> <<[fn |-> "error", text |-> text]>>]

\* st.error(text); return None, None: Session State is left as it is
Failed(ss, text) ==
    [data |-> None, before |-> None, ss |-> ss,
     ui |-> <<[fn |-> "error", text |-> text]>>]

\* What process_excel returns and does, given the file and Session State
\* ss: data/before are the returned pair, ss is Session State afterwards
\* (assigned at lines 49-50 only), ui the messages shown.
process_excel(file, ss) ==
    LET parsed == read_excel(file) IN
    IF parsed.raised THEN Failed(ss, "Erreur lors du traitement Excel")
    ELSE
    LET df == parsed.df
        header_row_index == find_header_row(df, required_terms)
    IN
    IF header_row_index = NoneIndex
    THEN Failed(ss, "La ligne contenant 'Code', 'Nom' et 'Prénom' n'a pas été trouvée.")
    ELSE
    LET rows_before_header == iloc_before(df, header_row_index)
        from_header == iloc_from(df, header_row_index)
        df_data == [columns |-> rename_code(from_header[1]),
                    rows |-> Tail(from_header)]
    IN
    IF IsEmpty(df_data) THEN Failed(ss, "Fichier Excel vide après traitement.")
    ELSE
    LET coerced == CoerceColumn(df_data, "A:Code")
        invalid_codes == CountNa(Column(coerced, "A:Code"))
    IN
    [data |-> coerced, before |-> rows_before_header,
     ss |-> [original_data |-> coerced, header_rows |-> rows_before_header],
     ui |-> IF invalid_codes > 0
            THEN <<[fn |-> "warning", text |-> "codes étudiants invalides détectés",
                    n |-> invalid_codes]>>
            ELSE <<>>]

(***************************************************************************)
(* process_csv                                                             *)
(***************************************************************************)
required_columns == <<"A:Code", "Nom", "Prénom", "Note">>

\* pd.read_csv(file, delimiter=';'): line 0 is the header; an empty field
\* is NaN; a column whose non-empty fields are all numerals is numeric, any
\* other column keeps its fields as text.  Raises on a file with no line.
read_csv(file) ==
    IF file.k # "csv" THEN [raised |-> TRUE]
    ELSE
    LET numeric == [j \in 1 .. Len(file.columns) |->
                       \A i \in 1 .. Len(file.rows) :
                           file.rows[i][j] = "" \/ IsNumeral(file.rows[i][j])]
        cell(i, j) == IF file.rows[i][j] = "" THEN NaN
                      ELSE IF numeric[j] THEN to_numeric(Str(file.rows[i][j]))
                      ELSE Str(file.rows[i][j])
    IN [raised |-> FALSE,
        df |-> [columns |-> [j \in 1 .. Len(file.columns) |-> Str(file.columns[j])],
                rows |-> [i \in 1 .. Len(file.rows) |->
                             [j \in 1 .. Len(file.columns) |-> cell(i, j)]]]]

\* Variant: only the first absent column is listed (C6 tells them apart).
FirstMissingOf(columns) ==
    LET absent(c) == ColumnsNamed(columns, c) = {}
        all == SelectSeq(required_columns, absent)
    IN IF all = <<>> THEN <<>> ELSE <<all[1]>>

\* [col for col in required_columns if col not in df.columns]
MissingOf(columns) ==
    LET absent(c) == ColumnsNamed(columns, c) = {}
    IN SelectSeq(required_columns, absent)

\* (df['Note'] < 0).any() or (df['Note'] > 20).any(): NaN compares False
OutOfRange(col) ==
    \/ \E i \in 1 .. Len(col) : ~isna(col[i]) /\ col[i].n < 0
    \/ \E i \in 1 .. Len(col) : ~isna(col[i]) /\ col[i].n > 20

\* set(series): equal numbers are one element; every NaN of a float column
\* is an object of its own and unequal to itself, so each is an element
PySet(col) ==
    {IF isna(col[i]) THEN [k |-> "nan", at |-> i] ELSE col[i] : i \in 1 .. Len(col)}

\* set(series.dropna())
PySetDropna(col) == {col[i] : i \in {j \in 1 .. Len(col) : ~isna(col[j])}}

\* original_codes - csv_codes
missing_codes(roster, df) ==
    PySet(Column(roster, "A:Code")) \ PySetDropna(Column(df, "A:Code"))

Entry(cond, e) == IF cond THEN <<e>> ELSE <<>>

\* lines 72-94: the anomaly list of a coerced grade table
DetectAnomalies(df, roster) ==
    LET note == Column(df, "Note")
        code == Column(df, "A:Code")
    IN  Entry(CountNa(note) > 0,
              [text |-> "notes manquantes", n |-> CountNa(note)])
     \o Entry(OutOfRange(note),
              [text |-> "Notes hors intervalle [0-20]"])
     \o Entry(CountNa(code) > 0,
              [text |-> "codes étudiants invalides", n |-> CountNa(code)])
     \o IF roster # None
        THEN Entry(missing_codes(roster, df) # {},
                   [text |-> "étudiants de l'Excel non présents dans le CSV",
                    n |-> Cardinality(missing_codes(roster, df))])
        ELSE <<>>

\* What process_csv returns (df, anomalies) and shows (ui), given the file
\* and st.session_state.original_data.
process_csv(file, roster) ==
    LET parsed == read_csv(file) IN
    IF parsed.raised
    THEN [df |-> None, anomalies |-> None,
          ui |-> <<[fn |-> "error", text |-> "Erreur lors du traitement CSV"]>>]
    ELSE
    LET missing_columns == MissingOf(parsed.df.columns) IN
    IF missing_columns # <<>>
    THEN [df |-> None, anomalies |-> None,
          ui |-> <<[fn |-> "error", text |-> "Colonnes manquantes",
                    cols |-> missing_columns]>>]
    ELSE
    LET df == CoerceColumn(CoerceColumn(parsed.df, "A:Code"), "Note")
    IN [df |-> df, anomalies |-> DetectAnomalies(df, roster), ui |-> <<>>]

(***************************************************************************)
(* generate_final_excel                                                    *)
(***************************************************************************)
\* cleaned_csv[['A:Code', 'Note']]
CodeNote(df) ==
    [i \in 1 .. Len(df.rows) |->
        [code |-> df.rows[i][ColIndex(df.columns, "A:Code")],
         note |-> df.rows[i][ColIndex(df.columns, "Note")]]]

\* the rows a left row yields in a left join: one per right row with an
\* equal key, in the right table's order (pandas matches a NaN key with a
\* NaN key), or one row with a NaN Note when no key is equal
JoinRow(row, key, right) ==
    LET same(r) == r.code = key
        hits == SelectSeq(right, same)
    IN IF hits = <<>> THEN <<Append(row, NaN)>>
       ELSE [h \in 1 .. Len(hits) |-> Append(row, hits[h].note)]

RECURSIVE JoinRows(_, _, _, _)
JoinRows(rows, keycol, right, i) ==
    IF i > Len(rows) THEN <<>>
    ELSE JoinRow(rows[i], rows[i][keycol], right)
         \o JoinRows(rows, keycol, right, i + 1)

\* Variant: an inner join, which drops the unmatched rows (C2 tells them apart).
merge_inner(left, right) ==
    LET all == JoinRows(left.rows, ColIndex(left.columns, "A:Code"), right, 1)
        keycol == ColIndex(left.columns, "A:Code")
        matched(row) == \E g \in 1 .. Len(right) : right[g].code = row[keycol]
    IN [columns |-> Append(left.columns, Str("Note")),
        rows |-> SelectSeq(all, matched)]

\* left.merge(right, on='A:Code', how='left')
merge_left(left, right) ==
    [columns |-> Append(left.columns, Str("Note")),
     rows |-> JoinRows(left.rows, ColIndex(left.columns, "A:Code"), right, 1)]

\* one row of cells written over a sheet row: the cells written replace
\* the cells at their columns, cells further right stay
OverRow(old, new) ==
    [j \in 1 .. Max2(Len(old), Len(new)) |->
        IF j <= Len(new) THEN new[j] ELSE old[j]]

\* DataFrame.to_excel writes `lines` to the sheet from 0-based row
\* `startrow` on; rows never written are empty
WriteRows(sheet, lines, startrow) ==
    [i \in 1 .. Max2(Len(sheet), startrow + Len(lines)) |->
        LET old == IF i <= Len(sheet) THEN sheet[i] ELSE <<>>
        IN IF i > startrow /\ i <= startrow + Len(lines)
           THEN OverRow(old, lines[i - startrow])
           ELSE old]

\* Variant: the joined table is written from row 0 (C5 tells them apart).
StartRowZero(header_df) == 0

\* startrow of the joined table: len(header_df)
MergedStartRow(header_df) == Len(header_df)

\* lines 111-121: the sheet of the final workbook
WriteFinal(header_df, joined) ==
    LET sheet1 == IF header_df # <<>> THEN WriteRows(<<>>, header_df, 0) ELSE <<>>
    IN WriteRows(sheet1, <<joined.columns>> \o joined.rows, MergedStartRow(header_df))

\* What generate_final_excel computes from the grade table and Session
\* State: the joined table and the returned file.
generate_final_excel(csv, roster, header_df) ==
    LET joined == merge_left(roster, CodeNote(csv))
    IN [final_df |-> joined,
        file |-> [k |-> "xlsx", rows |-> WriteFinal(header_df, joined)]]

(***************************************************************************)
(* The script: one run per user interaction (lines 127-193).               *)
(***************************************************************************)
\* text of a cell in DataFrame.to_csv: NaN is an empty field; a number of
\* a column holding NaN is a float ("1.0")
CsvField(c, float) ==
    CASE c.k = "str" -> c.s
      [] c.k = "num" -> IF float THEN IntStr(c.n) \o ".0" ELSE IntStr(c.n)
      [] OTHER       -> ""

\* processed_data.to_csv(index=False): header line, then the rows; only
\* the coerced A:Code column has a numeric dtype
to_csv(df) ==
    LET codecol == ColIndex(df.columns, "A:Code")
        float == CountNa(Column(df, "A:Code")) > 0
    IN <<[j \in 1 .. Len(df.columns) |-> CsvField(df.columns[j], FALSE)]>>
       \o [i \in 1 .. Len(df.rows) |->
              [j \in 1 .. Len(df.columns) |->
                  CsvField(df.rows[i][j], j = codecol /\ float)]]

\* lines 136-150: tab 1 on the uploader's content and Session State
Tab1(xl, ss) ==
    IF xl = None
    THEN [processed_data |-> None, ss |-> ss, ui |-> <<>>]
    ELSE
    LET r == process_excel(xl, ss) IN
    [processed_data |-> r.data, ss |-> r.ss,
     ui |-> r.ui \o
            IF r.data # None
            THEN <<[fn |-> "success", text |-> "Fichier Excel validé !"],
                   [fn |-> "download_button", file_name |-> "liste_etudiants_amc.csv",
                    data |-> to_csv(r.data)]>>
            ELSE <<>>]

RECURSIVE SumNotes(_, _)
SumNotes(col, i) ==
    IF i > Len(col) THEN 0
    ELSE (IF isna(col[i]) THEN 0 ELSE col[i].n) + SumNotes(col, i + 1)

\* lines 173-177: mean (as sum and count), max and min of the scores
\* present; all NaN when no score is present
Metrics(df) ==
    LET col == Column(df, "Note")
        present == {col[i].n : i \in {j \in 1 .. Len(col) : ~isna(col[j])}}
    IN IF present = {}
       THEN [fn |-> "metric", mean |-> NaN, max |-> NaN, min |-> NaN]
       ELSE [fn |-> "metric",
             mean |-> [sum |-> SumNotes(col, 1), count |-> Len(col) - CountNa(col)],
             max |-> Num(CHOOSE m \in present : \A x \in present : x <= m),
             min |-> Num(CHOOSE m \in present : \A x \in present : m <= x)]

\* Variant: the merge is skipped when anomalies exist (C7 tells them apart).
ShowAndMergeIfClean(csv, anoms, ss) ==
    LET g == generate_final_excel(csv, ss.original_data, ss.header_rows)
    IN IF anoms # <<>>
       THEN [final_df |-> None, final_excel |-> None,
             ui |-> <<[fn |-> "error", text |-> "Anomalies détectées", list |-> anoms],
                      Metrics(csv)>>]
       ELSE [final_df |-> g.final_df, final_excel |-> g.file,
             ui |-> <<[fn |-> "success", text |-> "Aucune anomalie critique détectée"],
                      Metrics(csv),
                      [fn |-> "download_button", file_name |-> "notes_finales.xlsx"]>>]

\* lines 163-193: what tab 2 does with a grade table process_csv returned
ShowAndMerge(csv, anoms, ss) ==
    LET g == generate_final_excel(csv, ss.original_data, ss.header_rows)
    IN [final_df |-> g.final_df, final_excel |-> g.file,
        ui |-> (IF anoms # <<>>
                THEN <<[fn |-> "error", text |-> "Anomalies détectées", list |-> anoms]>>
                ELSE <<[fn |-> "success", text |-> "Aucune anomalie critique détectée"]>>)
               \o <<Metrics(csv),
                    [fn |-> "download_button", file_name |-> "notes_finales.xlsx"]>>]

\* lines 155-193: tab 2 on the uploader's content and Session State
Tab2(csv, ss) ==
    LET nothing == [cleaned_csv |-> None, anomalies |-> None,
                    final_df |-> None, final_excel |-> None, ui |-> <<>>]
    IN
    IF ss.original_data = None
    THEN [nothing EXCEPT !.ui = <<[fn |-> "warning",
              text |-> "Veuillez d'abord traiter le fichier Excel dans l'onglet 1"]>>]
    ELSE IF csv = None THEN nothing
    ELSE
    LET r == process_csv(csv, ss.original_data) IN
    IF r.df = None THEN [nothing EXCEPT !.ui = r.ui]
    ELSE
    LET m == ShowAndMerge(r.df, r.anomalies, ss) IN
    [cleaned_csv |-> r.df, anomalies |-> r.anomalies,
     final_df |-> m.final_df, final_excel |-> m.final_excel,
     ui |-> r.ui \o m.ui]

\* One run of the script with the uploaders holding xl and csv.
Session == [original_data |-> original_data, header_rows |-> header_rows]

\* the rest of a run once tab 1 has done t1
Ran(t1, xl, csv) ==
    \E t2 \in {Tab2(csv, t1.ss)} :
       /\ uploaded_excel' = xl
       /\ uploaded_csv' = csv
       /\ original_data' = t1.ss.original_data
       /\ header_rows' = t1.ss.header_rows
       /\ processed_data' = t1.processed_data
       /\ cleaned_csv' = t2.cleaned_csv
       /\ anomalies' = t2.anomalies
       /\ final_df' = t2.final_df
       /\ final_excel' = t2.final_excel
       /\ ui' = t1.ui \o t2.ui

\* One run of the script with the uploaders holding xl and csv.
Run(xl, csv) == \E t1 \in {Tab1(xl, Session)} : Ran(t1, xl, csv)

(***************************************************************************)
(* Inputs.                                                                 *)
(***************************************************************************)
SeqsUpTo(S, n) == UNION {[1 .. m -> S] : m \in 0 .. n}

HeaderRow == <<Str("Code"), Str("Nom"), Str("Prénom")>>
HeaderRowLast == <<Str("Nom"), Str("Prénom"), Str("Code")>>
LowerRow == <<Str("code"), Str("Nom"), Str("Prénom")>>
Student1 == <<Num(1), Str("Dupont"), Num(2)>>
Student2 == <<Str("2"), Str("Martin"), NaN>>

RowPool == {HeaderRow, HeaderRowLast, LowerRow, Student1, Student2}

Corrupt == [k |-> "corrupt"]

Xlsx(rows) == [k |-> "xlsx", rows |-> rows]

ExcelFiles == {Xlsx(t) : t \in SeqsUpTo(RowPool, MaxRows)} \cup {Corrupt}

GradeLines == {<<"1", "Dupont", "Alice", "15">>,
               <<"2", "Martin", "Bob", "22">>,
               <<"1", "Dupont", "Alice", "">>,
               <<"abc", "Durand", "Chloé", "-1">>,
               <<"3", "Petit", "Denis", "21">>}

GradeHeaders == {<<"A:Code", "Nom", "Prénom", "Note">>,
                 <<"Note", "Nom", "Prénom", "A:Code">>,
                 <<"Code", "Nom", "Prénom", "Note">>,
                 <<"A:Code", "Nom", "Prenom", "note">>}

EmptyFile == [k |-> "empty"]

Csv(columns, rows) == [k |-> "csv", columns |-> columns, rows |-> rows]

CsvFiles == {Csv(h, t) : h \in GradeHeaders, t \in SeqsUpTo(GradeLines, MaxGradeRows)}
            \cup {EmptyFile}

(***************************************************************************)
(* The session: the script runs once when the page opens, then once per    *)
(* change of an uploader.  The tab-2 uploader exists only while a roster   *)
(* is stored (line 155).                                                   *)
(***************************************************************************)
Init ==
    /\ uploaded_excel = None
    /\ uploaded_csv = None
    /\ original_data = None
    /\ header_rows = None
    /\ processed_data = None
    /\ cleaned_csv = None
    /\ anomalies = None
    /\ final_df = None
    /\ final_excel = None
    /\ ui = <<[fn |-> "warning",
               text |-> "Veuillez d'abord traiter le fichier Excel dans l'onglet 1"]>>

\* a file of F is put in the tab-1 uploader
UploadExcel(F) == \E f \in F : f # uploaded_excel /\ Run(f, uploaded_csv)

RemoveExcel == uploaded_excel # None /\ Run(None, uploaded_csv)

\* a file of F is put in the tab-2 uploader; tab 1 runs first, on the file
\* its uploader still holds
UploadCsv(F) ==
    /\ original_data # None
    /\ \E t1 \in {Tab1(uploaded_excel, Session)} :
          \E f \in F : f # uploaded_csv /\ Ran(t1, uploaded_excel, f)

RemoveCsv == uploaded_csv # None /\ Run(uploaded_excel, None)

\* First use: each uploader receives one file.
FirstExcel == uploaded_excel = None /\ UploadExcel(ExcelFiles)

FirstCsv == uploaded_csv = None /\ UploadCsv(CsvFiles)

NextFirst == FirstExcel \/ FirstCsv

SpecFirst == Init /\ [][NextFirst]_vars

\* Any session: files are uploaded, replaced and removed in any order.
SessionExcelFiles ==
    {Corrupt,
     Xlsx(<<>>),
     Xlsx(<<Student1, LowerRow>>),
     Xlsx(<<Student2, HeaderRow>>),
     Xlsx(<<HeaderRow, Student1, Student2>>),
     Xlsx(<<HeaderRow, Student2, LowerRow>>),
     Xlsx(<<LowerRow, Student1, HeaderRowLast, Student1, Student2>>),
     Xlsx(<<HeaderRowLast, HeaderRow>>)}

SessionCsvFiles ==
    {EmptyFile,
     Csv(<<"A:Code", "Nom", "Prénom", "Note">>, <<>>),
     Csv(<<"A:Code", "Nom", "Prénom", "Note">>,
         <<<<"1", "Dupont", "Alice", "15">>, <<"2", "Martin", "Bob", "22">>>>),
     Csv(<<"A:Code", "Nom", "Prénom", "Note">>,
         <<<<"1", "Dupont", "Alice", "">>, <<"3", "Petit", "Denis", "21">>>>),
     Csv(<<"Note", "Nom", "Prénom", "A:Code">>,
         <<<<"abc", "Durand", "Chloé", "-1">>>>),
     Csv(<<"A:Code", "Nom", "Prenom", "note">>,
         <<<<"1", "Dupont", "Alice", "15">>>>)}

ChangeExcel == UploadExcel(SessionExcelFiles)

ChangeCsv == UploadCsv(SessionCsvFiles)

Next == ChangeExcel \/ RemoveExcel \/ ChangeCsv \/ RemoveCsv

Spec == Init /\ [][Next]_vars

(***************************************************************************)
(* What the claims speak of, stated on the uploaded files themselves.      *)
(***************************************************************************)
Markers == {"Code", "Nom", "Prénom"}

\* a row whose cells include every marker as a text cell
Qualifies(row) == \A m \in Markers : \E j \in 1 .. Len(row) : row[j] = Str(m)

HasHeader(t) == \E i \in 1 .. Len(t) : Qualifies(t[i])

\* position (1-based) of the first qualifying row of t
FirstHeader(t) ==
    CHOOSE i \in 1 .. Len(t) :
        Qualifies(t[i]) /\ \A j \in 1 .. i - 1 : ~Qualifies(t[j])

\* the rows of the uploaded spreadsheet
Sheet == uploaded_excel.rows

\* a raw identifier that numeric parsing accepts, and its number
Numerals == {<<IntStr(n), n>> : n \in NumRange}

Parses(c) == c.k = "num" \/ (c.k = "str" /\ \E p \in Numerals : p[1] = c.s)

Parsed(c) == IF c.k = "num" THEN c.n ELSE (CHOOSE p \in Numerals : p[1] = c.s)[2]

Shown(e) == \E i \in 1 .. Len(ui) : ui[i] = e

FinalOffered ==
    Shown([fn |-> "download_button", file_name |-> "notes_finales.xlsx"])

RosterCodes == Column(original_data, "A:Code")

GradeCodes == Column(cleaned_csv, "A:Code")

GradeNotes == Column(cleaned_csv, "Note")

\* C1: find_header_row returns the index of the first row whose cells
\* include Code, Nom and Prénom as exact text, and None when no row does.
C1_FirstMatchingRow ==
    uploaded_excel.k = "xlsx" =>
        LET r == find_header_row(Sheet, required_terms)
        IN /\ HasHeader(Sheet) => r = FirstHeader(Sheet) - 1
           /\ ~HasHeader(Sheet) => r = NoneIndex

\* a sheet with two qualifying rows, the first below a preamble row, was
\* processed and split at the first
C1_Witness ==
    /\ uploaded_excel.k = "xlsx"
    /\ \E i, j \in 1 .. Len(Sheet) :
          /\ 1 < i /\ i < j /\ Qualifies(Sheet[i]) /\ Qualifies(Sheet[j])
          /\ find_header_row(Sheet, required_terms) = i - 1
          /\ processed_data # None
          /\ Len(header_rows) = i - 1

\* the joined table is the roster with one Note appended to each row
JoinedAsClaimed ==
    /\ Len(final_df.rows) = Len(original_data.rows)
    /\ \A i \in 1 .. Len(original_data.rows) :
          IF \E g \in 1 .. Len(GradeCodes) : GradeCodes[g] = RosterCodes[i]
          THEN \E g \in 1 .. Len(GradeCodes) :
                  /\ GradeCodes[g] = RosterCodes[i]
                  /\ final_df.rows[i] = Append(original_data.rows[i], GradeNotes[g])
          ELSE final_df.rows[i] = Append(original_data.rows[i], NaN)

\* the grade table holds scores for a subset of the roster's identifiers
GradesForSubset ==
    /\ cleaned_csv # None
    /\ \A g \in 1 .. Len(GradeCodes) :
          /\ ~isna(GradeCodes[g])
          /\ \E i \in 1 .. Len(RosterCodes) : RosterCodes[i] = GradeCodes[g]

\* C2 as stated: for a roster of N rows and a grade table with scores for
\* a subset S of its identifiers, the joined table has N rows, the rows of
\* S carry their Note and the others a missing Note.
C2_AsStated == GradesForSubset => JoinedAsClaimed

\* C2 amended: the same, when no identifier occurs twice in the grade table.
C2_JoinOfDistinctGrades ==
    (/\ GradesForSubset
     /\ \A g, h \in 1 .. Len(GradeCodes) : GradeCodes[g] = GradeCodes[h] => g = h)
    => JoinedAsClaimed

\* a roster of two students joined with a score for the first of them only
C2_Witness ==
    /\ GradesForSubset
    /\ final_df # None
    /\ Len(original_data.rows) = 2
    /\ Len(GradeCodes) = 1
    /\ GradeCodes[1] = RosterCodes[1]
    /\ RosterCodes[2] # RosterCodes[1]
    /\ final_df.rows[1][Len(final_df.columns)] = Num(15)
    /\ isna(final_df.rows[2][Len(final_df.columns)])

\* the non-missing roster identifiers that are no non-missing identifier
\* of the grade file
AbsentIds ==
    {RosterCodes[i].n : i \in {j \in 1 .. Len(RosterCodes) : ~isna(RosterCodes[j])}}
    \ {GradeCodes[g].n : g \in {j \in 1 .. Len(GradeCodes) : ~isna(GradeCodes[j])}}

MismatchEntry(n) ==
    [text |-> "étudiants de l'Excel non présents dans le CSV", n |-> n]

\* C3: the roster/grade mismatch is reported iff some non-missing roster
\* identifier is no non-missing identifier of the grade file, with the
\* number of such identifiers; rows with a missing identifier count for
\* nothing.
C3_MismatchOverNonMissing ==
    cleaned_csv # None =>
        /\ (\E i \in 1 .. Len(anomalies) :
               anomalies[i].text = MismatchEntry(0).text) <=> AbsentIds # {}
        /\ \A i \in 1 .. Len(anomalies) :
               anomalies[i].text = MismatchEntry(0).text =>
                   anomalies[i] = MismatchEntry(Cardinality(AbsentIds))

MissingCount(col) == Cardinality({i \in 1 .. Len(col) : col[i] = NaN})

\* C4: the anomaly list is, in this order, the missing-score count, the
\* out-of-range flag, the missing-identifier count and the roster-mismatch
\* count, each present iff its condition holds; one missing score, one
\* score of 21 and one roster identifier absent give the counts 1, flag, 1.
C4_FourChecksInOrder ==
    cleaned_csv # None =>
        anomalies =
            Entry(MissingCount(GradeNotes) > 0,
                  [text |-> "notes manquantes", n |-> MissingCount(GradeNotes)])
         \o Entry(\E g \in 1 .. Len(GradeNotes) :
                      GradeNotes[g] # NaN /\ (GradeNotes[g].n < 0 \/ GradeNotes[g].n > 20),
                  [text |-> "Notes hors intervalle [0-20]"])
         \o Entry(MissingCount(GradeCodes) > 0,
                  [text |-> "codes étudiants invalides", n |-> MissingCount(GradeCodes)])
         \o Entry(AbsentIds # {}, MismatchEntry(Cardinality(AbsentIds)))

\* the header line of the joined table for the header row h of the sheet
JoinedHeader(h) ==
    [j \in 1 .. Len(h) + 1 |->
        IF j > Len(h) THEN Str("Note")
        ELSE IF h[j] = Str("Code") THEN Str("A:Code") ELSE h[j]]

\* C5: with the header row at index k, the Preamble is rows 0..k-1 of the
\* sheet, the final export holds those rows unchanged at rows 0..k-1 and
\* the header line of the joined table at row k, the joined rows below.
C5_LayoutFidelity ==
    final_excel # None =>
        LET k == FirstHeader(Sheet) - 1
        IN /\ header_rows = SubSeq(Sheet, 1, k)
           /\ \A i \in 1 .. k : final_excel.rows[i] = Sheet[i]
           /\ final_excel.rows[k + 1] = JoinedHeader(Sheet[k + 1])
           /\ Len(final_excel.rows) = k + 1 + Len(final_df.rows)
           /\ \A i \in 1 .. Len(final_df.rows) :
                  final_excel.rows[k + 1 + i] = final_df.rows[i]

\* a final export of a sheet whose header row lies below a preamble row
C5_Witness ==
    /\ final_excel # None
    /\ Len(header_rows) >= 1
    /\ final_excel.rows[1] = Sheet[1]
    /\ Len(final_df.rows) >= 1

\* the required columns the uploaded grade file lacks, in the required order
AbsentColumns ==
    LET lacks(c) == \A j \in 1 .. Len(uploaded_csv.columns) : uploaded_csv.columns[j] # c
    IN SelectSeq(<<"A:Code", "Nom", "Prénom", "Note">>, lacks)

\* C6: a grade file lacking required columns fails with the list of
\* exactly the absent names, in the required order; no grade table, no
\* anomaly list, no statistics and no merge follow.
C6_MissingColumns ==
    (uploaded_csv.k = "csv" /\ AbsentColumns # <<>>) =>
        /\ cleaned_csv = None
        /\ anomalies = None
        /\ final_df = None
        /\ final_excel = None
        /\ ui[Len(ui)] = [fn |-> "error", text |-> "Colonnes manquantes",
                          cols |-> AbsentColumns]
        /\ \A i \in 1 .. Len(ui) : ui[i].fn # "metric"
        /\ ~FinalOffered

\* a grade file with data lines that lacks two required columns
C6_Witness ==
    /\ uploaded_csv.k = "csv"
    /\ Len(AbsentColumns) = 2
    /\ uploaded_csv.rows # <<>>
    /\ cleaned_csv = None
    /\ ui[Len(ui)].fn = "error"

\* C7: whenever process_csv returns a grade table the final file is
\* generated and offered, whatever the anomaly list holds; with roster
\* identifiers 1, 2 and grades (1, 15), (2, 22) the out-of-range anomaly is
\* reported and the joined result is (1, 15), (2, 22).
C7_AnomaliesAdvisory ==
    cleaned_csv # None =>
        /\ final_excel # None
        /\ final_df # None
        /\ FinalOffered
        /\ anomalies # <<>> =>
               Shown([fn |-> "error", text |-> "Anomalies détectées", list |-> anomalies])
        /\ (/\ RosterCodes = <<Num(1), Num(2)>>
            /\ CodeNote(cleaned_csv) = <<[code |-> Num(1), note |-> Num(15)],
                                         [code |-> Num(2), note |-> Num(22)]>>)
           => /\ anomalies = <<[text |-> "Notes hors intervalle [0-20]"]>>
              /\ CodeNote(final_df) = <<[code |-> Num(1), note |-> Num(15)],
                                        [code |-> Num(2), note |-> Num(22)]>>

\* the scenario of the claim: an anomaly is reported and the file offered
C7_Witness ==
    /\ cleaned_csv # None
    /\ RosterCodes = <<Num(1), Num(2)>>
    /\ CodeNote(cleaned_csv) = <<[code |-> Num(1), note |-> Num(15)],
                                 [code |-> Num(2), note |-> Num(22)]>>
    /\ anomalies # <<>>
    /\ FinalOffered

\* position of the Code column in the sheet's header row
CodeColumn == CHOOSE j \in 1 .. Len(Sheet[FirstHeader(Sheet)]) :
                  Sheet[FirstHeader(Sheet)][j] = Str("Code")

\* the raw identifier of the i-th row below the header row
RawCode(i) == Sheet[FirstHeader(Sheet) + i][CodeColumn]

InvalidWarning(n) ==
    [fn |-> "warning", text |-> "codes étudiants invalides détectés", n |-> n]

\* C8: the stored Roster has one row per row below the header row; an
\* identifier that parses is its number and any other is missing, the
\* other cells are untouched; the warning is shown iff some identifier is
\* missing and carries their number.
C8_CoercionKeepsRows ==
    processed_data # None =>
        LET h == FirstHeader(Sheet)
            c == CodeColumn
            below == Len(Sheet) - h
            invalid == {i \in 1 .. below : ~Parses(Sheet[h + i][c])}
        IN /\ original_data = processed_data
           /\ Len(original_data.rows) = below
           /\ \A i \in 1 .. below :
                 \A j \in 1 .. Len(Sheet[h + i]) :
                     original_data.rows[i][j] =
                         IF j # c THEN Sheet[h + i][j]
                         ELSE IF Parses(Sheet[h + i][c])
                              THEN Num(Parsed(Sheet[h + i][c]))
                         ELSE NaN
           /\ invalid # {} => ui[1] = InvalidWarning(Cardinality(invalid))
           /\ invalid = {} => \A i \in 1 .. Len(ui) : ui[i].fn # "warning"

\* a roster of two rows stored with one identifier missing and one parsed
\* from text
C8_Witness ==
    /\ processed_data # None
    /\ Len(original_data.rows) = 2
    /\ \E i, j \in 1 .. 2 :
          /\ isna(RosterCodes[i]) /\ RawCode(i).k = "str"
          /\ ~isna(RosterCodes[j]) /\ RawCode(j).k = "str"
    /\ ui[1] = InvalidWarning(1)

FirstTabWarning ==
    [fn |-> "warning",
     text |-> "Veuillez d'abord traiter le fichier Excel dans l'onglet 1"]

\* C9: a sheet with no header row, and a sheet whose header row is its
\* last row, yield no Roster and no Preamble: nothing is returned, nothing
\* is stored, only the error is shown and no export is offered.
C9_FatalRoster ==
    (uploaded_excel.k = "xlsx"
        /\ (~HasHeader(Sheet) \/ FirstHeader(Sheet) = Len(Sheet))) =>
        /\ processed_data = None
        /\ original_data = None
        /\ header_rows = None
        /\ ui = <<[fn |-> "error",
                   text |-> IF HasHeader(Sheet)
                            THEN "Fichier Excel vide après traitement."
                            ELSE "La ligne contenant 'Code', 'Nom' et 'Prénom' n'a pas été trouvée."],
                  FirstTabWarning>>

\* a sheet whose header row is its last row, below preamble rows
C9_Witness ==
    /\ uploaded_excel.k = "xlsx"
    /\ HasHeader(Sheet)
    /\ FirstHeader(Sheet) = Len(Sheet)
    /\ Len(Sheet) >= 2
    /\ processed_data = None
    /\ original_data = None

\* C10: Roster and Preamble are both absent or both present; they change
\* only in a run whose process_excel succeeds, to the pair it produced; a
\* run whose process_excel fails leaves them as they were, and process_csv
\* and generate_final_excel never change them.
C10_SessionState ==
    /\ [](original_data = None <=> header_rows = None)
    /\ [][/\ processed_data' = None =>
                UNCHANGED <<original_data, header_rows>>
          /\ processed_data' # None =>
                /\ original_data' = processed_data'
                /\ header_rows' =
                       SubSeq(uploaded_excel'.rows, 1, FirstHeader(uploaded_excel'.rows) - 1)
                /\ Len(original_data'.rows) =
                       Len(uploaded_excel'.rows) - FirstHeader(uploaded_excel'.rows)]_vars

\* after a failed re-upload, step 2 has merged with the earlier Roster
C10_Witness ==
    /\ uploaded_excel # None
    /\ processed_data = None
    /\ original_data # None
    /\ header_rows # <<>>
    /\ final_excel # None
    /\ final_excel.rows[1] = header_rows[1]

====
